---- MODULE Spec2Model ----
(***************************************************************************)
(* State-machine model of boson/provider.py: the Janes installations       *)
(* remote provider.  One adapter object (janes_installations) is served;   *)
(* every search call runs search -> request_features -> parse_input_params *)
(* -> is_token_expired/get_token -> requests.get ->                        *)
(* convert_results_to_features -> __init__ (the reset).                    *)
(*                                                                         *)
(* Python values are modelled as follows: a dict is a function from string *)
(* keys (the empty dict is <<>>), a list is a sequence, a value that may   *)
(* be None is a sequence of length 0 (None) or 1, a str is a string.       *)
(* A feature id is kept as the sequence of its "/"-delimited segments.     *)
(*                                                                         *)
(* Spec serves one search call at a time; an exception (a transport error, *)
(* an IndexError or ValueError) ends a call without the reset.  SpecRepeat *)
(* runs a query and then the same query again.  SpecConcurrent interleaves *)
(* two calls on the one adapter.  Definitions named ...Mutant are faulty   *)
(* variants of the definition that follows them; no specification uses     *)
(* them.                                                                   *)
(***************************************************************************)
EXTENDS Integers, Sequences, FiniteSets, TLC

VARIABLES
    api_url,     \* self.api_url
    filters,     \* self.filters
    auth,        \* self.auth: bearerToken, and expires_at once a token was obtained
    now,         \* time.time()
    faults,      \* exceptions raised so far (bounded by MaxFaults)
    pc,          \* per call: the position of the call in the code
    kw,          \* per call: the arguments of search (pagination, limit, query fields)
    page,        \* per call: local page of search
    page_size,   \* per call: local page_size of search
    api_params,  \* per call: local api_params of request_features
    url,         \* per call: local url of request_features
    r,           \* per call: local r of get_token (the exchange response), None before
    sent,        \* per call: the data-fetch request handed to requests.get, None before
    response,    \* per call: local response of request_features, None before
    ret,         \* per call: the value returned by search, None before
    http         \* per call: the HTTP calls made so far, in order ("POST", "GET")

vars == <<api_url, filters, auth, now, faults, pc, kw, page, page_size,
          api_params, url, r, sent, response, ret, http>>

shared == <<api_url, filters, auth>>
locals == <<kw, page, page_size, api_params, url, r, sent, response, ret, http>>

(***************************************************************************)
(* Bounds of the model.                                                    *)
(***************************************************************************)
MaxTime == 2      \* the clock runs over 0..MaxTime
MaxFaults == 1    \* exceptions raised in one behaviour

(***************************************************************************)
(* Python helpers.                                                         *)
(***************************************************************************)
None == <<>>
Some(x) == <<x>>
EmptyDict == <<>>

\* dict.update: the entries of n win over those of m
Update(m, n) == n @@ m

\* dict.get(k, default)
Get_(m, k, default) == IF k \in DOMAIN m THEN m[k] ELSE default

\* dict.pop(k)
Pop(m, k) == [x \in (DOMAIN m) \ {k} |-> m[x]]

\* sep.join(parts)
RECURSIVE Join(_, _)
Join(parts, sep) ==
    IF Len(parts) = 0 THEN ""
    ELSE IF Len(parts) = 1 THEN parts[1]
    ELSE parts[1] \o sep \o Join(Tail(parts), sep)

\* s.split("/")[-1], s given by its segments
LastSegment(segments) == segments[Len(segments)]

\* the id string of a feature id
IdString(segments) == Join(segments, "/")

(***************************************************************************)
(* __init__                                                                *)
(***************************************************************************)
base_url == "https://intara-api.janes.com/graph/"
default_api_url == "https://intara-api.janes.com/graph/military-groups"
max_page_size == 200
api_default_params == EmptyDict
InitAuth == [bearerToken |-> ""]

\* queryables(): the advertised parameter names
Queryables ==
    {"sort", "ids", "filters", "q", "pageNo", "pageSize", "nextPageToken",
     "previousPageToken", "facets", "dateFacets", "facetSize", "fields"}

(***************************************************************************)
(* is_token_expired / get_token                                            *)
(***************************************************************************)
\* faulty: expired already at the instant of expiry
IsTokenExpiredAtExpiryMutant(a, t) ==
    IF "expires_at" \in DOMAIN a THEN t >= a.expires_at ELSE TRUE

IsTokenExpired(a, t) ==
    IF "expires_at" \in DOMAIN a THEN t > a.expires_at ELSE TRUE

\* faulty: a refused exchange drops the held credential
GetTokenClearsMutant(a, resp, t) ==
    IF resp.status_code = 200
    THEN [bearerToken |-> "Bearer " \o resp.access_token,
          expires_at |-> t + resp.expires_in]
    ELSE InitAuth

\* self.auth after get_token received resp at time t
GetTokenAuth(a, resp, t) ==
    IF resp.status_code = 200
    THEN [bearerToken |-> "Bearer " \o resp.access_token,
          expires_at |-> t + resp.expires_in]
    ELSE a

(***************************************************************************)
(* update_filters                                                          *)
(***************************************************************************)
\* faulty: the new fragment is put in front
UpdateFiltersPrependMutant(f, new_filter) ==
    IF f # "" THEN new_filter \o "," \o f ELSE new_filter

UpdateFilters(f, new_filter) ==
    IF f # "" THEN f \o "," \o new_filter ELSE new_filter

(***************************************************************************)
(* parse_input_params                                                      *)
(***************************************************************************)
\* _datetime.fromtimestamp(seconds).strftime('%Y-%m-%dT%H:%M:%SZ'), for the
\* instants the model draws (local time zone taken as UTC)
Strftime(seconds) ==
    CASE seconds = 0 -> "1970-01-01T00:00:00Z"
      [] seconds = 86400 -> "1970-01-02T00:00:00Z"
      [] OTHER -> "1970-01-03T00:00:00Z"

BboxFragment(bbox) ==
    "_within((" \o bbox[4] \o ", " \o bbox[1] \o "),(" \o bbox[2] \o ", " \o bbox[3] \o "))"

DatetimeFragment(datetime) ==
    "lastModifiedDate:>=" \o Strftime(datetime[1])
        \o ",lastModifiedDate:<=" \o Strftime(datetime[2])

IntersectsFragment(intersects) ==
    "_within(" \o Join(intersects.coordinates, ",") \o ")"

\* cql2_to_query_params: a CQL filter is represented by the dict the
\* conversion returns for it
Cql2ToQueryParams(filter) == filter

\* the str of one entry of a flat field list
FieldString(field) == field.marker \o field.name

\* [field for field in fields if field[0] == "+"]
MarkedFields(fields) == SelectSeq(fields, LAMBDA field : field.marker = "+")

\* the include list of the fields argument (a tagged dict or list)
IncludeOf(fields) ==
    IF fields.type = "dict"
    THEN IF "include" \in DOMAIN fields.value THEN fields.value["include"] ELSE <<>>
    ELSE MarkedFields(fields.value)

FieldsParam(fields) ==
    Join([i \in 1..Len(IncludeOf(fields)) |-> FieldString(IncludeOf(fields)[i])], ",")

SortParam(sortby) ==
    IF "direction" \in DOMAIN sortby THEN sortby["direction"] ELSE "asc"

\* faulty: every extra parameter but filters is applied
ExtraQueryablesAnyKeyMutant(extra_params) ==
    [k \in (DOMAIN extra_params) \ {"filters"} |-> extra_params[k]]

\* the extra parameters that are applied to api_params
ExtraQueryables(extra_params) ==
    [k \in ((DOMAIN extra_params) \cap Queryables) \ {"filters"} |-> extra_params[k]]

PaginationParams(pg, ps) == ("pageNo" :> pg) @@ ("pageSize" :> ps)

\* faulty: the extra parameters are applied after the pagination
ParseInputParamsExtrasLastMutant(f0, u0, q, pg, ps) ==
    LET p0 == Update(EmptyDict, api_default_params)
        f1 == IF Len(q.bbox) > 0 THEN UpdateFilters(f0, BboxFragment(q.bbox)) ELSE f0
        f2 == IF Len(q.datetime) > 0
              THEN UpdateFilters(f1, DatetimeFragment(q.datetime)) ELSE f1
        f3 == IF Len(q.intersects) > 0
              THEN UpdateFilters(f2, IntersectsFragment(q.intersects[1])) ELSE f2
        u1 == IF Len(q.collections) > 0 THEN base_url \o q.collections[1] ELSE u0
        p1 == IF Len(q.feature_ids) > 1
              THEN Update(p0, "ids" :> Join([i \in 1..Len(q.feature_ids) |->
                                              IdString(q.feature_ids[i])], ","))
              ELSE p0
        p2 == IF Len(q.filter) > 0 THEN Update(p1, Cql2ToQueryParams(q.filter[1])) ELSE p1
        hasF == Len(q.filter) > 0 /\ "filters" \in DOMAIN p2
        f4 == IF hasF THEN UpdateFilters(f3, p2["filters"]) ELSE f3
        p3 == IF hasF THEN Pop(p2, "filters") ELSE p2
        p4 == IF Len(q.fields) > 0 /\ DOMAIN q.fields[1].value # {}
              THEN Update(p3, "fields" :> FieldsParam(q.fields[1])) ELSE p3
        p5 == IF DOMAIN q.sortby # {} THEN Update(p4, "sort" :> SortParam(q.sortby)) ELSE p4
        p6 == Update(p5, PaginationParams(pg, ps))
        f5 == IF "filters" \in DOMAIN q.extra_params
              THEN UpdateFilters(f4, q.extra_params["filters"]) ELSE f4
        p7 == Update(p6, ExtraQueryables(q.extra_params))
    IN  IF Len(q.datetime) = 1
        THEN [raised |-> TRUE, filters |-> f1, api_url |-> u0, api_params |-> EmptyDict]
        ELSE IF Len(q.feature_ids) = 1
        THEN [raised |-> FALSE, filters |-> "",
              api_url |-> u1 \o "/" \o LastSegment(q.feature_ids[1]),
              api_params |-> EmptyDict]
        ELSE [raised |-> FALSE, filters |-> f5, api_url |-> u1, api_params |-> p7]

\* parse_input_params run on self.filters = f0, self.api_url = u0 with the
\* query q and page pg, page_size ps.  raised: an IndexError left the method
\* (datetime[1] of a one-element list), with the state written so far.
ParseInputParams(f0, u0, q, pg, ps) ==
    LET p0 == Update(EmptyDict, api_default_params)
        f1 == IF Len(q.bbox) > 0 THEN UpdateFilters(f0, BboxFragment(q.bbox)) ELSE f0
        f2 == IF Len(q.datetime) > 0
              THEN UpdateFilters(f1, DatetimeFragment(q.datetime)) ELSE f1
        f3 == IF Len(q.intersects) > 0
              THEN UpdateFilters(f2, IntersectsFragment(q.intersects[1])) ELSE f2
        u1 == IF Len(q.collections) > 0 THEN base_url \o q.collections[1] ELSE u0
        p1 == IF Len(q.feature_ids) > 1
              THEN Update(p0, "ids" :> Join([i \in 1..Len(q.feature_ids) |->
                                              IdString(q.feature_ids[i])], ","))
              ELSE p0
        p2 == IF Len(q.filter) > 0 THEN Update(p1, Cql2ToQueryParams(q.filter[1])) ELSE p1
        hasF == Len(q.filter) > 0 /\ "filters" \in DOMAIN p2
        f4 == IF hasF THEN UpdateFilters(f3, p2["filters"]) ELSE f3
        p3 == IF hasF THEN Pop(p2, "filters") ELSE p2
        p4 == IF Len(q.fields) > 0 /\ DOMAIN q.fields[1].value # {}
              THEN Update(p3, "fields" :> FieldsParam(q.fields[1])) ELSE p3
        p5 == IF DOMAIN q.sortby # {} THEN Update(p4, "sort" :> SortParam(q.sortby)) ELSE p4
        p6 == Update(p5, ExtraQueryables(q.extra_params))
        f5 == IF "filters" \in DOMAIN q.extra_params
              THEN UpdateFilters(f4, q.extra_params["filters"]) ELSE f4
        p7 == Update(p6, PaginationParams(pg, ps))
    IN  IF Len(q.datetime) = 1
        THEN [raised |-> TRUE, filters |-> f1, api_url |-> u0, api_params |-> EmptyDict]
        ELSE IF Len(q.feature_ids) = 1
        THEN [raised |-> FALSE, filters |-> "",
              api_url |-> u1 \o "/" \o LastSegment(q.feature_ids[1]),
              api_params |-> EmptyDict]
        ELSE [raised |-> FALSE, filters |-> f5, api_url |-> u1, api_params |-> p7]

(***************************************************************************)
(* request_features: the url of the data fetch                             *)
(***************************************************************************)
\* faulty: the filters parameter is put on the url whatever the expression
RequestUrlAlwaysMutant(u, f) == u \o "?filters=" \o f

RequestUrl(u, f) == IF f # "" THEN u \o "?filters=" \o f ELSE u

(***************************************************************************)
(* search: page and page size                                              *)
(***************************************************************************)
\* faulty: any non-empty pagination input is used
HasPageAnyKeyMutant(pagination) == DOMAIN pagination # {}

\* pagination and "page" in pagination and "page_size" in pagination
HasPage(pagination) == {"page", "page_size"} \subseteq DOMAIN pagination

\* lines 355-360: the page size the limit argument gives
LimitPageSize(limit) ==
    IF Len(limit) = 0 \/ limit = Some(0) THEN max_page_size
    ELSE IF limit[1] <= max_page_size THEN limit[1] ELSE max_page_size

\* lines 354, 362-364
ResolvePage(q) ==
    IF HasPage(q.pagination) THEN Get_(q.pagination, "page", 1) ELSE 1

\* lines 355-365
ResolvePageSize(q) ==
    IF HasPage(q.pagination)
    THEN Get_(q.pagination, "page_size", max_page_size)
    ELSE LimitPageSize(q.limit)

\* faulty: the descriptor names the current page again
PaginationDictSamePageMutant(pg, ps) == ("page" :> pg) @@ ("page_size" :> ps)

\* pagination_dict
PaginationDict(pg, ps) == ("page" :> pg + 1) @@ ("page_size" :> ps)

(***************************************************************************)
(* convert_results_to_features                                             *)
(***************************************************************************)
\* the rows of a response body: its "results" when it has them, else the
\* body itself as the only row
RowsOf(body) ==
    IF "results" \in DOMAIN body THEN body["results"] ELSE <<body>>

\* strptime(text, "%Y-%m-%dT%H:%M:%S+00:00") and strptime(text,
\* "%Y-%m-%dT%H:%M:%SZ"): the naive datetime of a text of that pattern
\* (None for a text strptime raises ValueError on)
StrptimeOffset(text) ==
    IF text = "2024-01-01T00:00:00+00:00" THEN Some("2024-01-01 00:00:00") ELSE None

StrptimeZ(text) ==
    IF text = "2024-01-02T00:00:00Z" THEN Some("2024-01-02 00:00:00") ELSE None

\* lines 272-281 raise on the row
RowRaises(row) ==
    IF "datetime" \in DOMAIN row /\ row["datetime"] # ""
    THEN StrptimeOffset(row["datetime"]) = None
    ELSE "lastModifiedDate" \in DOMAIN row /\ StrptimeZ(row["lastModifiedDate"]) = None

\* faulty: groupBasedAt is looked at first
LocationOfGroupFirstMutant(row) ==
    IF "groupBasedAt" \in DOMAIN row
    THEN IF "locatedAt" \in DOMAIN row["groupBasedAt"]
         THEN row["groupBasedAt"]["locatedAt"]
         ELSE row["groupBasedAt"]
    ELSE IF "locatedAt" \in DOMAIN row THEN row["locatedAt"]
    ELSE EmptyDict

\* lines 256-267: the location object lat and long are read from ({} for none)
LocationOf(row) ==
    IF "locatedAt" \in DOMAIN row /\ DOMAIN row["locatedAt"] # {}
    THEN row["locatedAt"]
    ELSE IF "groupBasedAt" \in DOMAIN row
    THEN IF "locatedAt" \in DOMAIN row["groupBasedAt"]
         THEN row["groupBasedAt"]["locatedAt"]
         ELSE row["groupBasedAt"]
    ELSE EmptyDict

\* line 269
GeometryOf(row) ==
    [type |-> "Point",
     coordinates |-> <<Get_(LocationOf(row), "long", 0), Get_(LocationOf(row), "lat", 0)>>]

\* lines 272-286: the datetime of the feature, None when the feature has none
DatetimeOf(row) ==
    IF "datetime" \in DOMAIN row /\ row["datetime"] # ""
    THEN StrptimeOffset(row["datetime"])
    ELSE IF "lastModifiedDate" \in DOMAIN row
    THEN StrptimeZ(row["lastModifiedDate"])
    ELSE None

\* faulty: the location objects are taken out of the properties too
PropertiesOfDropsLocationMutant(row) ==
    [k \in (DOMAIN row) \ {"datetime", "locatedAt", "groupBasedAt"} |-> row[k]]

\* lines 291-294: the properties of the feature
PropertiesOf(row) == Pop(row, "datetime")

\* lines 253-294: the feature of a row
Feature(row) ==
    [id |-> Get_(row, "id", "None"), geometry |-> GeometryOf(row),
     datetime |-> DatetimeOf(row), properties |-> PropertiesOf(row)]

ConvertResultsToFeatures(body) ==
    [i \in 1..Len(RowsOf(body)) |-> Feature(RowsOf(body)[i])]

ConvertRaises(body) == \E i \in 1..Len(RowsOf(body)) : RowRaises(RowsOf(body)[i])

(***************************************************************************)
(* Inputs: the queries, and the responses of the two endpoints.            *)
(***************************************************************************)
Calls == {1, 2}

DefaultQuery ==
    [bbox |-> <<>>, datetime |-> <<>>, intersects |-> None, collections |-> <<>>,
     feature_ids |-> <<>>, filter |-> None, fields |-> None, sortby |-> EmptyDict,
     extra_params |-> EmptyDict, limit |-> None, pagination |-> EmptyDict]

\* the query whose arguments are those of d, the others at their default
Query(d) == [f \in DOMAIN DefaultQuery |-> IF f \in DOMAIN d THEN d[f] ELSE DefaultQuery[f]]

Bbox1 == <<"-10.0", "-5.0", "10.0", "5.0">>
Range1 == <<0, 86400>>
Geometry1 == [coordinates |-> <<"(0 0)", "(0 1)", "(1 1)">>]
Page2 == ("page" :> 2) @@ ("page_size" :> 50)
PageBig == ("page" :> 1) @@ ("page_size" :> 500)
Token1 == "token" :> "tok"

\* queries that differ in pagination and limit only
PageQueries ==
    {Query(("pagination" :> pg) @@ ("limit" :> lim)) :
        pg \in {EmptyDict, Page2, PageBig, Token1},
        lim \in {None, Some(0), Some(5), Some(300)}}

\* queries that build a filter expression
FilterQueries ==
    {Query("bbox" :> Bbox1),
     Query(("bbox" :> Bbox1) @@ ("datetime" :> Range1) @@ ("intersects" :> Some(Geometry1))),
     Query("filter" :> Some(("filters" :> "status:active") @@ ("pageNo" :> 9))),
     Query(("extra_params" :> (("filters" :> "type:base") @@ ("q" :> "radar")
                                 @@ ("pageSize" :> 7) @@ ("unlisted" :> "1")))
           @@ ("collections" :> <<"bases">>)),
     Query(("bbox" :> Bbox1) @@ ("pagination" :> Token1) @@ ("limit" :> Some(5))
           @@ ("extra_params" :> ("nextPageToken" :> "own"))),
     Query("filter" :> Some(("filters" :> "") @@ ("q" :> "radar")))}

\* queries that name features
IdQueries ==
    {Query("feature_ids" :> <<(<<"x">>)>>),
     Query(("feature_ids" :> <<(<<"urn", "y">>)>>) @@ ("collections" :> <<"bases">>)),
     Query(("feature_ids" :> <<(<<"urn", "y">>)>>) @@ ("bbox" :> Bbox1)
           @@ ("filter" :> Some("filters" :> "status:active"))
           @@ ("extra_params" :> ("q" :> "radar")) @@ ("pagination" :> Page2)),
     Query(("feature_ids" :> <<(<<"x">>)>>) @@ ("pagination" :> Token1)),
     Query("feature_ids" :> <<(<<"urn", "y">>), (<<"z">>)>>)}

\* a time range of one instant: datetime[1] raises IndexError
RaisingQueries ==
    {Query(("bbox" :> Bbox1) @@ ("datetime" :> <<0>>))}

\* entries of a field list: the marker is the first character when it is "+"
\* or "-", and "" for a bare name
Field(marker, name) == [marker |-> marker, name |-> name]
FieldList1 == <<Field("+", "name"), Field("-", "secret"), Field("+", "type")>>
FieldDict1 ==
    ("include" :> <<Field("", "name"), Field("", "type")>>)
        @@ ("exclude" :> <<Field("", "secret")>>)

\* queries that select fields or sort
ParamQueries ==
    {Query("fields" :> Some([type |-> "list", value |-> FieldList1])),
     Query("fields" :> Some([type |-> "list", value |-> <<Field("-", "secret")>>])),
     Query("fields" :> Some([type |-> "dict", value |-> FieldDict1])),
     Query("sortby" :> (("field" :> "name") @@ ("direction" :> "desc"))),
     Query("sortby" :> ("field" :> "name")),
     Query("sortby" :> ("direction" :> "desc"))}

Queries ==
    PageQueries \cup FilterQueries \cup IdQueries \cup RaisingQueries \cup ParamQueries

QueryRaises(q) == Len(q.datetime) = 1

\* the responses of the credential exchange
ExchangeResponses ==
    {[status_code |-> 200, access_token |-> "abc", expires_in |-> 1],
     [status_code |-> 401]}

\* rows of the data fetch
Row1 ==
    ("id" :> "r1") @@ ("locatedAt" :> (("lat" :> 51) @@ ("long" :> 7)))
        @@ ("datetime" :> "2024-01-01T00:00:00+00:00")
Row2 ==
    ("id" :> "r2") @@ ("groupBasedAt" :> ("locatedAt" :> (("lat" :> 48) @@ ("long" :> 2))))
        @@ ("lastModifiedDate" :> "2024-01-02T00:00:00Z")
RowMalformed == ("id" :> "r3") @@ ("datetime" :> "2024-01-01")
\* an empty locatedAt object beside a groupBasedAt that has the coordinates
Row4 ==
    ("id" :> "r4") @@ ("locatedAt" :> EmptyDict)
        @@ ("groupBasedAt" :> (("lat" :> 40) @@ ("long" :> 3)))
\* both location objects
Row5 ==
    ("id" :> "r5") @@ ("locatedAt" :> (("lat" :> 10) @@ ("long" :> 20)))
        @@ ("groupBasedAt" :> ("locatedAt" :> (("lat" :> 30) @@ ("long" :> 40))))
        @@ ("name" :> "HQ")
\* no location object and no date
Row6 == ("id" :> "r6") @@ ("name" :> "depot")

\* the responses of the data fetch: status and JSON body
FetchResponses ==
    {[status_code |-> 200,
      json |-> ("results" :> <<>>)],
     [status_code |-> 200,
      json |-> ("results" :> <<Row1>>)
               @@ ("search" :> (("totalResults" :> 9999) @@ ("nextPageToken" :> "n1")))],
     [status_code |-> 200,
      json |-> ("results" :> <<Row1, Row2>>)
               @@ ("search" :> (("totalResults" :> 10000) @@ ("nextPageToken" :> "n2")))],
     [status_code |-> 200,
      json |-> ("results" :> <<RowMalformed>>)],
     [status_code |-> 200,
      json |-> ("results" :> <<Row4, Row5, Row6>>)],
     [status_code |-> 204, json |-> EmptyDict],
     [status_code |-> 500, json |-> EmptyDict]}

(***************************************************************************)
(* The state after construction.                                           *)
(***************************************************************************)
IdleLocals(p) ==
    /\ kw' = [kw EXCEPT ![p] = DefaultQuery]
    /\ page' = [page EXCEPT ![p] = 1]
    /\ page_size' = [page_size EXCEPT ![p] = max_page_size]
    /\ api_params' = [api_params EXCEPT ![p] = EmptyDict]
    /\ url' = [url EXCEPT ![p] = ""]
    /\ r' = [r EXCEPT ![p] = None]
    /\ sent' = [sent EXCEPT ![p] = None]
    /\ response' = [response EXCEPT ![p] = None]
    /\ ret' = [ret EXCEPT ![p] = None]
    /\ http' = [http EXCEPT ![p] = <<>>]

Init ==
    /\ api_url = default_api_url
    /\ filters = ""
    /\ auth = InitAuth
    /\ now = 0
    /\ faults = 0
    /\ pc = [p \in Calls |-> "idle"]
    /\ kw = [p \in Calls |-> DefaultQuery]
    /\ page = [p \in Calls |-> 1]
    /\ page_size = [p \in Calls |-> max_page_size]
    /\ api_params = [p \in Calls |-> EmptyDict]
    /\ url = [p \in Calls |-> ""]
    /\ r = [p \in Calls |-> None]
    /\ sent = [p \in Calls |-> None]
    /\ response = [p \in Calls |-> None]
    /\ ret = [p \in Calls |-> None]
    /\ http = [p \in Calls |-> <<>>]

(***************************************************************************)
(* The steps of one search call.                                           *)
(***************************************************************************)
\* search, lines 343-378: page and page_size, then request_features is entered
Search(p, q) ==
    /\ pc[p] = "idle"
    /\ QueryRaises(q) => faults < MaxFaults
    /\ pc' = [pc EXCEPT ![p] = "parse_input_params"]
    /\ kw' = [kw EXCEPT ![p] = q]
    /\ page' = [page EXCEPT ![p] = ResolvePage(q)]
    /\ page_size' = [page_size EXCEPT ![p] = ResolvePageSize(q)]
    /\ UNCHANGED <<api_url, filters, auth, now, faults,
                   api_params, url, r, sent, response, ret, http>>

\* request_features, line 310: parse_input_params and what it writes to self
Parse(p) ==
    /\ pc[p] = "parse_input_params"
    /\ LET out == ParseInputParams(filters, api_url, kw[p], page[p], page_size[p])
       IN  /\ filters' = out.filters
           /\ api_url' = out.api_url
           /\ api_params' = [api_params EXCEPT ![p] = out.api_params]
           /\ pc' = [pc EXCEPT ![p] = IF out.raised THEN "raised" ELSE "url"]
           /\ faults' = IF out.raised THEN faults + 1 ELSE faults
    /\ UNCHANGED <<auth, now, kw, page, page_size, url, r, sent, response, ret, http>>

\* request_features, lines 315-318
BuildUrl(p) ==
    /\ pc[p] = "url"
    /\ url' = [url EXCEPT ![p] = RequestUrl(api_url, filters)]
    /\ pc' = [pc EXCEPT ![p] = "is_token_expired"]
    /\ UNCHANGED <<api_url, filters, auth, now, faults, kw, page, page_size,
                   api_params, r, sent, response, ret, http>>

\* request_features, line 321
CheckToken(p) ==
    /\ pc[p] = "is_token_expired"
    /\ pc' = [pc EXCEPT ![p] = IF IsTokenExpired(auth, now) THEN "get_token" ELSE "get"]
    /\ UNCHANGED <<api_url, filters, auth, now, faults, locals>>

\* get_token: the exchange answers resp
GetToken(p, resp) ==
    /\ pc[p] = "get_token"
    /\ http' = [http EXCEPT ![p] = Append(@, "POST")]
    /\ r' = [r EXCEPT ![p] = Some(resp)]
    /\ auth' = GetTokenAuth(auth, resp, now)
    /\ pc' = [pc EXCEPT ![p] = "get"]
    /\ UNCHANGED <<api_url, filters, now, faults, kw, page, page_size,
                   api_params, url, sent, response, ret>>

\* get_token: requests.post raises (no answer from the token endpoint)
GetTokenRaises(p) ==
    /\ pc[p] = "get_token"
    /\ faults < MaxFaults
    /\ faults' = faults + 1
    /\ http' = [http EXCEPT ![p] = Append(@, "POST")]
    /\ pc' = [pc EXCEPT ![p] = "raised"]
    /\ UNCHANGED <<api_url, filters, auth, now, kw, page, page_size,
                   api_params, url, r, sent, response, ret>>

\* the request of lines 324-328
Request(p) ==
    [url |-> url[p], params |-> api_params[p],
     headers |-> [Authorization |-> auth.bearerToken]]

\* line 335 raises on resp: a row of it makes strptime raise
ResponseRaises(resp) == resp.status_code = 200 /\ ConvertRaises(resp.json)

\* request_features, lines 324-328: requests.get answers resp
Get(p, resp) ==
    /\ pc[p] = "get"
    /\ ResponseRaises(resp) => faults < MaxFaults
    /\ http' = [http EXCEPT ![p] = Append(@, "GET")]
    /\ sent' = [sent EXCEPT ![p] = Some(Request(p))]
    /\ response' = [response EXCEPT ![p] = Some(resp)]
    /\ pc' = [pc EXCEPT ![p] = "response"]
    /\ UNCHANGED <<api_url, filters, auth, now, faults, kw, page, page_size,
                   api_params, url, r, ret>>

\* request_features, line 328: requests.get raises (no answer from the API)
GetRaises(p) ==
    /\ pc[p] = "get"
    /\ faults < MaxFaults
    /\ faults' = faults + 1
    /\ http' = [http EXCEPT ![p] = Append(@, "GET")]
    /\ sent' = [sent EXCEPT ![p] = Some(Request(p))]
    /\ pc' = [pc EXCEPT ![p] = "raised"]
    /\ UNCHANGED <<api_url, filters, auth, now, kw, page, page_size,
                   api_params, url, r, response, ret>>

\* faulty: the body is converted whatever the status
FeaturesOfAnyStatusMutant(resp) == ConvertResultsToFeatures(resp.json)

\* request_features, lines 331-341: the features of a response
FeaturesOf(resp) ==
    IF resp.status_code = 200 THEN ConvertResultsToFeatures(resp.json) ELSE <<>>

\* faulty: a status other than 200 is fetched again
FinishRetryMutant(p) ==
    /\ pc[p] = "response"
    /\ ~ResponseRaises(response[p][1])
    /\ IF response[p][1].status_code = 200
       THEN /\ ret' = [ret EXCEPT ![p] =
                        Some([features |-> FeaturesOf(response[p][1]),
                              pagination |-> PaginationDict(page[p], page_size[p])])]
            /\ api_url' = default_api_url
            /\ filters' = ""
            /\ auth' = InitAuth
            /\ pc' = [pc EXCEPT ![p] = "done"]
       ELSE /\ pc' = [pc EXCEPT ![p] = "get"]
            /\ UNCHANGED <<ret, api_url, filters, auth>>
    /\ UNCHANGED <<now, faults, kw, page, page_size, api_params, url, r, sent,
                   response, http>>

\* request_features lines 331-341 and search lines 378-402: the features,
\* the pagination dict, the reset of the adapter by __init__, the return
Finish(p) ==
    /\ pc[p] = "response"
    /\ ~ResponseRaises(response[p][1])
    /\ ret' = [ret EXCEPT ![p] =
                 Some([features |-> FeaturesOf(response[p][1]),
                       pagination |-> PaginationDict(page[p], page_size[p])])]
    /\ api_url' = default_api_url
    /\ filters' = ""
    /\ auth' = InitAuth
    /\ pc' = [pc EXCEPT ![p] = "done"]
    /\ UNCHANGED <<now, faults, kw, page, page_size, api_params, url, r, sent,
                   response, http>>

\* request_features, line 335: convert_results_to_features raises ValueError
\* (strptime, lines 274 and 278), and the reset of line 401 is not reached
FinishRaises(p) ==
    /\ pc[p] = "response"
    /\ ResponseRaises(response[p][1])
    /\ faults' = faults + 1
    /\ pc' = [pc EXCEPT ![p] = "raised"]
    /\ UNCHANGED <<api_url, filters, auth, now, locals>>

\* the caller has the result, or the exception: the call is over
Return(p) ==
    /\ pc[p] \in {"done", "raised"}
    /\ pc' = [pc EXCEPT ![p] = "idle"]
    /\ IdleLocals(p)
    /\ UNCHANGED <<api_url, filters, auth, now, faults>>

\* time passes.  The clock is read by is_token_expired and by get_token
\* only, so time that passes elsewhere in a call is time that passed before
\* the call
Tick ==
    /\ now < MaxTime
    /\ \A p \in Calls : pc[p] \in {"idle", "get_token"}
    /\ now' = now + 1
    /\ UNCHANGED <<api_url, filters, auth, faults, pc, locals>>

(***************************************************************************)
(* Spec: the adapter serves one search call at a time.                     *)
(***************************************************************************)
NoCall == \A p \in Calls : pc[p] = "idle"

Next ==
    \/ Tick
    \/ \E q \in Queries : NoCall /\ Search(1, q)
    \/ Parse(1)
    \/ BuildUrl(1)
    \/ CheckToken(1)
    \/ \E resp \in ExchangeResponses : GetToken(1, resp)
    \/ GetTokenRaises(1)
    \/ \E resp \in FetchResponses : Get(1, resp)
    \/ GetRaises(1)
    \/ Finish(1)
    \/ FinishRaises(1)
    \/ Return(1)

Spec == Init /\ [][Next]_vars

(***************************************************************************)
(* SpecConcurrent: two search calls on the served adapter, interleaved     *)
(* (the adapter is one module-level object behind the HTTP server).        *)
(***************************************************************************)
ConcurrentQueries ==
    {Query("bbox" :> Bbox1),
     Query("filter" :> Some("filters" :> "status:active")),
     Query(("feature_ids" :> <<(<<"urn", "y">>)>>) @@ ("collections" :> <<"bases">>))}

ConcurrentResponses ==
    {resp \in FetchResponses : resp.status_code # 200 \/ Len(resp.json["results"]) = 0}

NextConcurrent ==
    \E p \in Calls :
        \/ \E q \in ConcurrentQueries : Search(p, q)
        \/ Parse(p)
        \/ BuildUrl(p)
        \/ CheckToken(p)
        \/ \E resp \in ExchangeResponses : GetToken(p, resp)
        \/ \E resp \in ConcurrentResponses : Get(p, resp)
        \/ Finish(p)
        \/ Return(p)

SpecConcurrent == Init /\ [][NextConcurrent]_vars

(***************************************************************************)
(* SpecRepeat: a search call, and then the same query again on the same    *)
(* adapter while the caller still holds the outcome of the first call.     *)
(***************************************************************************)
NextRepeat ==
    \/ \E q \in Queries : NoCall /\ Search(1, q)
    \/ pc[1] \in {"done", "raised"} /\ Search(2, kw[1])
    \/ \E p \in Calls :
           \/ Parse(p)
           \/ BuildUrl(p)
           \/ CheckToken(p)
           \/ \E resp \in ExchangeResponses : GetToken(p, resp)
           \/ \E resp \in FetchResponses : Get(p, resp)
           \/ GetRaises(p)
           \/ Finish(p)
           \/ FinishRaises(p)

SpecRepeat == Init /\ [][NextRepeat]_vars

(***************************************************************************)
(* Properties.                                                             *)
(***************************************************************************)
\* what the claims read off a call
Sent(p) == sent[p][1]
Response(p) == response[p][1]
Returned(p) == ret[p][1]
HasSent(p) == Len(sent[p]) = 1
HasResponse(p) == Len(response[p]) = 1
SingleId(q) == Len(q.feature_ids) = 1

\* rawResponse.search.totalResults, 0 when absent
TotalResults(json) ==
    IF "search" \in DOMAIN json /\ "totalResults" \in DOMAIN json["search"]
    THEN json["search"]["totalResults"] ELSE 0

\* rawResponse.search.nextPageToken, "None" when absent
NextPageToken(json) ==
    IF "search" \in DOMAIN json /\ "nextPageToken" \in DOMAIN json["search"]
    THEN json["search"]["nextPageToken"] ELSE "None"

\* the page a call is on: the page of its pagination input, else the first
CurrentPage(q) ==
    IF {"page", "page_size"} \subseteq DOMAIN q.pagination THEN q.pagination["page"] ELSE 1

\* the page size the limit argument asks for, at most the maximum
RequestedPageSize(q) ==
    IF q.limit = None \/ q.limit = Some(0) \/ q.limit[1] > max_page_size
    THEN max_page_size ELSE q.limit[1]

\* the request a fresh adapter sends for q
FreshTranslation(q) ==
    LET out == ParseInputParams("", default_api_url, q, CurrentPage(q),
                                IF {"page", "page_size"} \subseteq DOMAIN q.pagination
                                THEN q.pagination["page_size"] ELSE RequestedPageSize(q))
    IN  [url |-> RequestUrl(out.api_url, out.filters), params |-> out.api_params]

\* C1 (as claimed): the descriptor returned for the next page is TokenBased,
\* carrying search.nextPageToken, whenever search.totalResults >= 10000, and
\* PageBased with page = currentPage + 1 and the same page size below that.
C1_DescriptorByThreshold ==
    \A p \in Calls :
        pc[p] = "done" =>
            IF TotalResults(Response(p).json) >= 10000
            THEN Returned(p).pagination = ("token" :> NextPageToken(Response(p).json))
            ELSE Returned(p).pagination =
                     ("page" :> CurrentPage(kw[p]) + 1) @@ ("page_size" :> page_size[p])

\* C1 (amended): for every search call and every upstream response, whatever
\* its totalResults, the descriptor returned is PageBased: page is
\* currentPage + 1 and page_size is the page size of the call, the one sent
\* upstream as pageSize.
C1_DescriptorPageBased ==
    \A p \in Calls :
        pc[p] = "done" =>
            /\ DOMAIN Returned(p).pagination = {"page", "page_size"}
            /\ Returned(p).pagination["page"] = CurrentPage(kw[p]) + 1
            /\ "pageSize" \in DOMAIN Sent(p).params =>
                   Returned(p).pagination["page_size"] = Sent(p).params["pageSize"]

\* C1 witness: a call on page 2 whose response reports 10000 results returns
\* the page-based descriptor of page 3.
C1_Witness ==
    \E p \in Calls :
        /\ pc[p] = "done"
        /\ kw[p].pagination = Page2
        /\ TotalResults(Response(p).json) >= 10000
        /\ Returned(p).pagination = ("page" :> 3) @@ ("page_size" :> 50)

\* C2: a query with exactly one id is sent to {baseUrl}{component}/{idSlug}
\* with no query parameter and no filter expression, whatever else it carries.
C2_SingleIdRequest ==
    \A p \in Calls :
        HasSent(p) /\ SingleId(kw[p]) =>
            /\ Sent(p).url =
                   base_url
                   \o (IF Len(kw[p].collections) > 0 THEN kw[p].collections[1]
                       ELSE "military-groups")
                   \o "/" \o LastSegment(kw[p].feature_ids[1])
            /\ DOMAIN Sent(p).params = {}

\* C3: two translations of the same query on the adapter yield the same
\* request: same URL with the same filter expression, same queryParams.
C3_TranslationIdempotent ==
    \A p1, p2 \in Calls :
        HasSent(p1) /\ HasSent(p2) /\ kw[p1] = kw[p2] =>
            /\ Sent(p1).url = Sent(p2).url
            /\ Sent(p1).params = Sent(p2).params

\* C4 (as claimed): a non-2xx status of the data fetch never ends in a
\* returned record set and descriptor.
C4_NonSuccessRaises ==
    \A p \in Calls :
        HasResponse(p) /\ Response(p).status_code \notin 200..299 => pc[p] # "done"

\* C4 (amended): when the data fetch returns a status other than 200, the
\* call raises nothing: it returns an empty record set with the page-based
\* next descriptor, after exactly one data fetch.
C4_NonSuccessReturnsEmpty ==
    \A p \in Calls :
        HasResponse(p) /\ Response(p).status_code # 200 =>
            /\ pc[p] \in {"response", "done"}
            /\ Len(SelectSeq(http[p], LAMBDA m : m = "GET")) = 1
            /\ pc[p] = "done" =>
                   /\ Returned(p).features = <<>>
                   /\ DOMAIN Returned(p).pagination = {"page", "page_size"}

\* C4 witness: a call whose data fetch answered 500 has returned no records.
C4_Witness ==
    \E p \in Calls :
        /\ pc[p] = "done"
        /\ Response(p).status_code = 500
        /\ Returned(p).features = <<>>

\* C5 (as claimed): a continuation token in the pagination input makes the
\* query parameters exactly {nextPageToken: token, pageSize: requested size},
\* with no filter expression on the URL.
C5_TokenShortcut ==
    \A p \in Calls :
        HasSent(p) /\ "token" \in DOMAIN kw[p].pagination =>
            /\ Sent(p).params =
                   ("nextPageToken" :> kw[p].pagination["token"])
                       @@ ("pageSize" :> RequestedPageSize(kw[p]))
            /\ Sent(p).url = default_api_url

\* C5 (amended): a pagination input that carries a continuation token (and not
\* both page and page_size) is discarded: unless the single-id shortcut
\* emptied the parameters, the request has pageNo = 1 and pageSize = the size
\* the limit gives, and a nextPageToken parameter only when the extra
\* parameters or the CQL-derived parameters supply one, with their value.
C5_TokenDiscarded ==
    \A p \in Calls :
        (/\ HasSent(p)
         /\ "token" \in DOMAIN kw[p].pagination
         /\ ~({"page", "page_size"} \subseteq DOMAIN kw[p].pagination)) =>
            IF SingleId(kw[p]) THEN DOMAIN Sent(p).params = {}
            ELSE /\ Sent(p).params["pageNo"] = 1
                 /\ Sent(p).params["pageSize"] = RequestedPageSize(kw[p])
                 /\ "nextPageToken" \in DOMAIN Sent(p).params =>
                        LET own == Update(IF Len(kw[p].filter) > 0 THEN kw[p].filter[1]
                                          ELSE EmptyDict, kw[p].extra_params)
                        IN  /\ "nextPageToken" \in DOMAIN own
                            /\ Sent(p).params["nextPageToken"] = own["nextPageToken"]

\* C5 witness: a request of a call with a token, a limit of 5 and a bbox is
\* sent with pageNo 1, pageSize 5 and the bbox filter on its URL.
C5_Witness ==
    \E p \in Calls :
        /\ HasSent(p)
        /\ kw[p].pagination = Token1
        /\ kw[p].limit = Some(5)
        /\ Len(kw[p].bbox) > 0
        /\ Sent(p).params["pageNo"] = 1
        /\ Sent(p).params["pageSize"] = 5
        /\ Sent(p).url = default_api_url \o "?filters=" \o BboxFragment(Bbox1)

\* C6 (as claimed): the expiry check leads to a credential exchange exactly
\* when the expiry is absent or <= now.
C6_ExchangeIffNotAfterNow ==
    [][\A p \in Calls :
          pc[p] = "is_token_expired" /\ pc'[p] # "is_token_expired" =>
              (pc'[p] = "get_token"
                  <=> ("expires_at" \notin DOMAIN auth \/ auth.expires_at <= now))]_vars

\* C6 (amended): the expiry check leads to a credential exchange exactly when
\* the expiry is absent or < now (at now = expiresAt the credential is still
\* used); after a successful exchange the credential is
\* bearerToken = "Bearer " + access_token, expiresAt = now + expires_in.
C6_ExchangeIffExpired ==
    [][\A p \in Calls :
          /\ pc[p] = "is_token_expired" /\ pc'[p] # "is_token_expired" =>
                 /\ pc'[p] \in {"get_token", "get"}
                 /\ pc'[p] = "get_token"
                        <=> ("expires_at" \notin DOMAIN auth \/ auth.expires_at < now)
          /\ (/\ pc[p] = "get_token"
              /\ Len(r'[p]) = 1
              /\ r'[p][1].status_code = 200) =>
                 /\ Append(http[p], "POST") = http'[p]
                 /\ auth' = [bearerToken |-> "Bearer " \o r'[p][1].access_token,
                             expires_at |-> now + r'[p][1].expires_in]]_vars

\* C6 witness: a call at the instant now = expiresAt goes to its data fetch
\* without an exchange.
C6_Witness ==
    \E p \in Calls :
        /\ pc[p] = "get"
        /\ http[p] = <<>>
        /\ "expires_at" \in DOMAIN auth
        /\ auth.expires_at = now

\* C7: when the credential exchange returns a non-success status the
\* credential is left as it was, nothing is raised, and the call goes on to
\* its data fetch, which carries the bearer token held then.
C7_FailedExchangePassesThrough ==
    [][\A p \in Calls :
          /\ (/\ pc[p] = "get_token"
              /\ Len(r'[p]) = 1
              /\ r'[p][1].status_code # 200) =>
                 /\ auth' = auth
                 /\ pc'[p] = "get"
          /\ (/\ pc[p] = "get"
              /\ pc'[p] # "get"
              /\ Len(r[p]) = 1
              /\ r[p][1].status_code # 200) =>
                 /\ Len(sent'[p]) = 1
                 /\ sent'[p][1].headers.Authorization = auth.bearerToken]_vars

\* C7 witness: after a refused exchange a data fetch was answered that
\* carried the stale bearer token of an earlier call.
C7_Witness ==
    \E p \in Calls :
        /\ pc[p] = "response"
        /\ r[p] # None
        /\ r[p][1].status_code = 401
        /\ Sent(p).headers.Authorization = "Bearer abc"
        /\ auth.expires_at < now

\* C8: a search call makes at most one credential exchange and at most one
\* data fetch, the exchange before the fetch.
C8_OneExchangeThenOneFetch ==
    \A p \in Calls : http[p] \in {<<>>, <<"POST">>, <<"GET">>, <<"POST", "GET">>}

\* C8 witness: a finished call that made the exchange and then the fetch.
C8_Witness ==
    \E p \in Calls : pc[p] = "done" /\ http[p] = <<"POST", "GET">>

\* C9: under any interleaving of two search calls, the URL a call sends, with
\* its filter expression, is the one built from that call's own query.
C9_OwnQueryOnly ==
    \A p \in Calls : HasSent(p) => Sent(p).url = FreshTranslation(kw[p]).url

\* C10: the page size sent upstream, and the one echoed in the returned
\* descriptor, never exceeds the maximum page size.
C10_PageSizeClamped ==
    \A p \in Calls :
        /\ (HasSent(p) /\ "pageSize" \in DOMAIN Sent(p).params) =>
               Sent(p).params["pageSize"] <= max_page_size
        /\ pc[p] = "done" => Returned(p).pagination["page_size"] <= max_page_size

\* what the claims read off a query
HasFields(q) == Len(q.fields) = 1
HasCql(q) == Len(q.filter) = 1

\* the names of the entries of a flat field list that carry the marker "+",
\* in input order, without the marker
IncludedNames(value) ==
    LET inc == SelectSeq(value, LAMBDA f : f.marker = "+")
    IN  [i \in 1..Len(inc) |-> inc[i].name]

\* the include list of an {include, exclude} mapping, as written
IncludeList(value) ==
    IF "include" \in DOMAIN value
    THEN [i \in 1..Len(value["include"]) |->
              value["include"][i].marker \o value["include"][i].name]
    ELSE <<>>

\* C11: for a flat field list, queryParams["fields"] is the comma-join, in
\* input order, of the entries whose first character is "+", with the "+"
\* stripped (entries without it dropped); for an {include, exclude} mapping
\* it is the comma-join of the include list.
C11_FieldsMarkerStripped ==
    \A p \in Calls :
        HasSent(p) /\ HasFields(kw[p]) /\ ~SingleId(kw[p]) =>
            /\ "fields" \in DOMAIN Sent(p).params
            /\ Sent(p).params["fields"] =
                   IF kw[p].fields[1].type = "list"
                   THEN Join(IncludedNames(kw[p].fields[1].value), ",")
                   ELSE Join(IncludeList(kw[p].fields[1].value), ",")

\* the query q without the extra parameters named in drop
WithoutExtras(q, drop) ==
    [q EXCEPT !["extra_params"] = [k \in (DOMAIN q.extra_params) \ drop |->
                                       q.extra_params[k]]]

\* C12: in the translation of a query, a key of the extra parameters reaches
\* queryParams only if it is in the queryables allow-list; the key "filters"
\* is never a literal query parameter but is appended as a fragment to the
\* filter expression; the keys outside the allow-list raise nothing and leave
\* queryParams and the filter expression as they are without them.
C12_ExtrasAllowListed ==
    [][\A p \in Calls :
          (/\ pc[p] = "parse_input_params"
           /\ pc'[p] # "parse_input_params"
           /\ ~SingleId(kw[p])
           /\ Len(kw[p].datetime) # 1) =>
              LET extra == kw[p].extra_params
                  unlisted == (DOMAIN extra) \ Queryables
                  listed == ParseInputParams(filters, api_url,
                                WithoutExtras(kw[p], unlisted), page[p], page_size[p])
                  before == ParseInputParams(filters, api_url,
                                WithoutExtras(kw[p], {"filters"}), page[p], page_size[p])
              IN  /\ pc'[p] = "url"
                  /\ \A k \in unlisted :
                         k \in DOMAIN api_params'[p] =>
                             HasCql(kw[p]) /\ k \in DOMAIN kw[p].filter[1]
                  /\ "filters" \notin DOMAIN api_params'[p]
                  /\ "filters" \in DOMAIN extra =>
                         filters' = IF before.filters = "" THEN extra["filters"]
                                    ELSE before.filters \o "," \o extra["filters"]
                  /\ api_params'[p] = listed.api_params
                  /\ filters' = listed.filters]_vars

\* C12 witness: a query whose extra parameters carry q, filters and a key
\* outside the allow-list was translated: q is a parameter, the unlisted key
\* and filters are not, and the fragment is the filter expression.
C12_Witness ==
    \E p \in Calls :
        /\ pc[p] = "url"
        /\ {"q", "filters", "unlisted"} \subseteq DOMAIN kw[p].extra_params
        /\ DOMAIN api_params[p] = {"q", "pageNo", "pageSize"}
        /\ api_params[p]["q"] = "radar"
        /\ filters = "type:base"

\* the first feature a finished call returned and the row it was made from
FirstRow(p) == RowsOf(Response(p).json)[1]
FirstFeature(p) == Returned(p).features[1]
ReturnedRows(p) ==
    pc[p] = "done" /\ Response(p).status_code = 200 /\ Len(Returned(p).features) > 0

\* C13 (as claimed): the properties bag of a normalized record holds every
\* field of the row except the raw location sub-object and the datetime
\* field.
C13_PropertiesWithoutLocation ==
    \A p \in Calls :
        ReturnedRows(p) =>
            \A i \in 1..Len(Returned(p).features) :
                LET row == RowsOf(Response(p).json)[i]
                    bag == Returned(p).features[i].properties
                IN  /\ DOMAIN bag = (DOMAIN row) \ {"datetime", "locatedAt", "groupBasedAt"}
                    /\ \A k \in DOMAIN bag : bag[k] = row[k]

\* C13 (amended): the properties bag of a normalized record holds every
\* field of the row, the raw location objects locatedAt and groupBasedAt
\* included, except the datetime field: the bag has no datetime key and no
\* other field is dropped or changed.
C13_PropertiesAllButDatetime ==
    \A p \in Calls :
        ReturnedRows(p) =>
            /\ Len(Returned(p).features) = Len(RowsOf(Response(p).json))
            /\ \A i \in 1..Len(Returned(p).features) :
                   LET row == RowsOf(Response(p).json)[i]
                       bag == Returned(p).features[i].properties
                   IN  /\ DOMAIN bag = (DOMAIN row) \ {"datetime"}
                       /\ \A k \in DOMAIN bag : bag[k] = row[k]

\* C13 witness: a returned record made from a row with a datetime and a
\* locatedAt object has the locatedAt object, and no datetime, in its bag.
C13_Witness ==
    \E p \in Calls :
        /\ ReturnedRows(p)
        /\ {"datetime", "locatedAt"} \subseteq DOMAIN FirstRow(p)
        /\ "locatedAt" \in DOMAIN FirstFeature(p).properties
        /\ FirstFeature(p).properties["locatedAt"] = FirstRow(p)["locatedAt"]
        /\ "datetime" \notin DOMAIN FirstFeature(p).properties

\* the fragments a query contributes to the filter expression, each a
\* sequence of length 0 (absent) or 1
BboxPart(q) == IF Len(q.bbox) > 0 THEN <<BboxFragment(q.bbox)>> ELSE <<>>
TimePart(q) == IF Len(q.datetime) > 0 THEN <<DatetimeFragment(q.datetime)>> ELSE <<>>
GeometryPart(q) ==
    IF Len(q.intersects) > 0 THEN <<IntersectsFragment(q.intersects[1])>> ELSE <<>>
CqlPart(q) ==
    IF HasCql(q) /\ "filters" \in DOMAIN q.filter[1] THEN <<q.filter[1]["filters"]>>
    ELSE <<>>
ExtraPart(q) ==
    IF "filters" \in DOMAIN q.extra_params THEN <<q.extra_params["filters"]>> ELSE <<>>

\* the expression f with the fragments parts joined to it by ","
Appended(f, parts) ==
    IF Len(parts) = 0 THEN f
    ELSE IF f = "" THEN Join(parts, ",")
    ELSE f \o "," \o Join(parts, ",")

\* a translation step of call p that took neither the single-id path nor
\* raised, of a query whose fragments are non-empty strings
TranslationStep(p) ==
    /\ pc[p] = "parse_input_params"
    /\ pc'[p] = "url"
    /\ ~SingleId(kw[p])
    /\ \A i \in 1..Len(CqlPart(kw[p]) \o ExtraPart(kw[p])) :
           (CqlPart(kw[p]) \o ExtraPart(kw[p]))[i] # ""

\* C14 (as claimed): the fragments a query adds to the filter expression
\* appear in the order bbox, geometry (intersects), time range, structured
\* CQL filter, joined with ",".
C14_OrderGeometryBeforeTime ==
    [][\A p \in Calls :
          TranslationStep(p) =>
              filters' = Appended(filters,
                             BboxPart(kw[p]) \o GeometryPart(kw[p]) \o TimePart(kw[p])
                                 \o CqlPart(kw[p]) \o ExtraPart(kw[p]))]_vars

\* C14 (amended): the fragments a query adds to the filter expression appear
\* in the fixed order bbox, time range, geometry (intersects), structured
\* CQL filter, filters of the extra parameters (each only when present),
\* joined with "," in that order after what the accumulator already held.
C14_OrderTimeBeforeGeometry ==
    [][\A p \in Calls :
          TranslationStep(p) =>
              filters' = Appended(filters,
                             BboxPart(kw[p]) \o TimePart(kw[p]) \o GeometryPart(kw[p])
                                 \o CqlPart(kw[p]) \o ExtraPart(kw[p]))]_vars

\* C14 witness: a query with bbox, time range and geometry was translated to
\* the bbox fragment, then the two lastModifiedDate fragments, then the
\* geometry fragment.
C14_Witness ==
    \E p \in Calls :
        /\ pc[p] = "url"
        /\ kw[p].bbox = Bbox1 /\ kw[p].datetime = Range1
        /\ kw[p].intersects = Some(Geometry1)
        /\ filters = BboxFragment(Bbox1) \o "," \o DatetimeFragment(Range1)
                         \o "," \o IntersectsFragment(Geometry1)

\* C15: after construction the credential is changed only by the refresh
\* operation; no other step of a search call alters the bearer token or its
\* expiry, so a credential that has not expired is still held, and used
\* without a new exchange, by the next search call.
C15_CredentialChangedOnlyByRefresh ==
    [][auth' # auth => \E p \in Calls : pc[p] = "get_token" /\ pc'[p] = "get"]_vars

\* C16: the data fetch carries a filters parameter if and only if the built
\* filter expression is non-empty: with an empty expression the url is the
\* bare request url (no empty filters parameter), else it is the request url
\* with ?filters= and the expression; and queryParams never holds a filters
\* key, whether the CQL-derived or the extra parameters supplied one.
C16_FiltersParameterIffNonEmpty ==
    [][\A p \in Calls :
          /\ (pc[p] = "url" /\ pc'[p] # "url") =>
                 /\ filters = "" => url'[p] = api_url
                 /\ filters # "" =>
                        /\ url'[p] = api_url \o "?filters=" \o filters
                        /\ Len(url'[p]) > Len(api_url) + Len("?filters=")
                 /\ "filters" \notin DOMAIN api_params[p]
          /\ (pc[p] = "get" /\ Len(sent'[p]) = 1) =>
                 /\ sent'[p][1].url = url[p]
                 /\ "filters" \notin DOMAIN sent'[p][1].params]_vars

\* C16 witness: a query whose CQL-derived parameters carry an empty filters
\* value was sent to the bare url, with the other CQL-derived parameter and
\* no filters parameter.
C16_Witness ==
    \E p \in Calls :
        /\ HasSent(p)
        /\ HasCql(kw[p])
        /\ "filters" \in DOMAIN kw[p].filter[1]
        /\ kw[p].filter[1]["filters"] = ""
        /\ Sent(p).url = default_api_url
        /\ DOMAIN Sent(p).params = {"q", "pageNo", "pageSize"}

\* the point [lon, lat] read from a location object, 0 for a missing field
PointOf(location) ==
    <<IF "long" \in DOMAIN location THEN location["long"] ELSE 0,
      IF "lat" \in DOMAIN location THEN location["lat"] ELSE 0>>

\* groupBasedAt, or its nested locatedAt when it has one
GroupLocation(row) ==
    IF "locatedAt" \in DOMAIN row["groupBasedAt"]
    THEN row["groupBasedAt"]["locatedAt"] ELSE row["groupBasedAt"]

\* C17 (as claimed): the geometry of a normalized record is the Point
\* [lon, lat] of the row's locatedAt object, else of its groupBasedAt object
\* (the nested locatedAt when present), else [0, 0]; a row with both always
\* uses locatedAt.
C17_LocatedAtWheneverPresent ==
    \A p \in Calls :
        ReturnedRows(p) =>
            \A i \in 1..Len(Returned(p).features) :
                LET row == RowsOf(Response(p).json)[i]
                IN  Returned(p).features[i].geometry =
                        [type |-> "Point",
                         coordinates |->
                             IF "locatedAt" \in DOMAIN row THEN PointOf(row["locatedAt"])
                             ELSE IF "groupBasedAt" \in DOMAIN row
                             THEN PointOf(GroupLocation(row))
                             ELSE <<0, 0>>]

\* C17 (amended): the geometry of a normalized record is the Point
\* [lon, lat] of (1) the row's locatedAt object when it is present and not
\* empty, else (2) its groupBasedAt object (the nested locatedAt when
\* present), else (3) [0, 0], a missing lat or long reading 0; a row with a
\* non-empty locatedAt and a groupBasedAt uses locatedAt, a row with an empty
\* locatedAt and a groupBasedAt uses groupBasedAt, and a row with neither
\* raises nothing.
C17_LocatedAtWhenNotEmpty ==
    \A p \in Calls :
        /\ ReturnedRows(p) =>
               \A i \in 1..Len(Returned(p).features) :
                   LET row == RowsOf(Response(p).json)[i]
                   IN  Returned(p).features[i].geometry =
                           [type |-> "Point",
                            coordinates |->
                                IF "locatedAt" \in DOMAIN row /\ DOMAIN row["locatedAt"] # {}
                                THEN PointOf(row["locatedAt"])
                                ELSE IF "groupBasedAt" \in DOMAIN row
                                THEN PointOf(GroupLocation(row))
                                ELSE <<0, 0>>]
        /\ (/\ pc[p] = "raised"
            /\ HasResponse(p)) =>
               \E i \in 1..Len(RowsOf(Response(p).json)) :
                   {"datetime", "lastModifiedDate"} \cap DOMAIN RowsOf(Response(p).json)[i] # {}

\* C17 witness: the records of a row with an empty locatedAt beside a
\* groupBasedAt, of a row with both objects, and of a row with neither.
C17_Witness ==
    \E p \in Calls :
        /\ ReturnedRows(p)
        /\ RowsOf(Response(p).json) = <<Row4, Row5, Row6>>
        /\ Returned(p).features[1].geometry.coordinates = <<3, 40>>
        /\ Returned(p).features[2].geometry.coordinates = <<20, 10>>
        /\ Returned(p).features[3].geometry.coordinates = <<0, 0>>

\* C18: queryParams["sort"] is emitted only if the sort spec has a field
\* name, and then equals "{field}:{direction}", the direction defaulting to
\* "asc"; a sort spec without a field emits no sort parameter.
C18_SortFieldAndDirection ==
    \A p \in Calls :
        (/\ HasSent(p)
         /\ ~SingleId(kw[p])
         /\ "sort" \notin DOMAIN kw[p].extra_params
         /\ ~(HasCql(kw[p]) /\ "sort" \in DOMAIN kw[p].filter[1])) =>
            IF "field" \in DOMAIN kw[p].sortby
            THEN /\ "sort" \in DOMAIN Sent(p).params
                 /\ Sent(p).params["sort"] =
                        kw[p].sortby["field"] \o ":"
                            \o (IF "direction" \in DOMAIN kw[p].sortby
                                THEN kw[p].sortby["direction"] ELSE "asc")
            ELSE "sort" \notin DOMAIN Sent(p).params

\* C19: for a query that takes neither the single-id path nor carries a
\* continuation token, the request's pageNo and pageSize are the page and
\* page size resolved from the pagination input (and the limit), even when
\* the extra parameters or the CQL-derived parameters supply pageNo or
\* pageSize.
C19_PaginationAppliedLast ==
    \A p \in Calls :
        (/\ HasSent(p)
         /\ ~SingleId(kw[p])
         /\ "token" \notin DOMAIN kw[p].pagination) =>
            /\ {"pageNo", "pageSize"} \subseteq DOMAIN Sent(p).params
            /\ Sent(p).params["pageNo"] = CurrentPage(kw[p])
            /\ Sent(p).params["pageSize"] =
                   IF {"page", "page_size"} \subseteq DOMAIN kw[p].pagination
                   THEN kw[p].pagination["page_size"]
                   ELSE RequestedPageSize(kw[p])

\* C19 witness: a request of a query whose extra parameters ask for
\* pageSize 7 was sent with the resolved pageSize 200 and pageNo 1.
C19_Witness ==
    \E p \in Calls :
        /\ HasSent(p)
        /\ "pageSize" \in DOMAIN kw[p].extra_params
        /\ kw[p].extra_params["pageSize"] = 7
        /\ Sent(p).params["pageSize"] = max_page_size
        /\ Sent(p).params["pageNo"] = 1

\* C20: at the start of every search call the filter accumulator is empty
\* and the request url is the configured default, whatever the earlier calls
\* were and however they ended.
C20_CleanAtCallStart ==
    \A p \in Calls :
        pc[p] = "parse_input_params" =>
            filters = "" /\ api_url = default_api_url

====
